---- MODULE Spec2Model ----
(***************************************************************************)
(* A model of the meowfacts ingestion and export scripts:                  *)
(*   src/src/models/custom_file.py                  fetch_meowfacts, main  *)
(*   src/src/models/custom_file_2_building_table.py build_table            *)
(*                                                                         *)
(* Three specifications share the variables:                               *)
(*   SpecFetch  calls fetch_meowfacts with arbitrary arguments and         *)
(*              upstream responses;                                        *)
(*   Spec       is one run of main over the configured languages;          *)
(*   SpecTable  is one run of build_table over a JSON input file.          *)
(***************************************************************************)
EXTENDS Integers, Sequences, FiniteSets, TLC

VARIABLES
    pc,                \* position of main: "loop", "finish", "done"
    idx,               \* 1-based index of the language main handles next
    all_facts,         \* main's all_facts list
    failed_languages,  \* main's failed_languages list
    raised,            \* the exception that left main (NoExc: none)
    output_file,       \* content of OUTPUT_FILE on disk
    write_calls,       \* the data of every write_output_file call, in order
    http_log,          \* every HTTP GET issued, in order
    attempts,          \* the languages main called fetch_meowfacts for, in order
    outcomes,          \* per attempt, what fetch_meowfacts did
    clock,             \* the wall clock read by get_timestamp
    next_uuid,         \* number of uuid4 values drawn so far
    call,              \* the last fetch_meowfacts call and its result
    tpc,               \* position of build_table: "start", "done"
    input_json,        \* content of INPUT_FILE: a JSON array of objects
    df,                \* the DataFrame built from it
    csv_file,          \* content of CSV_FILE
    xlsx_file          \* content of EXCEL_FILE (one sheet)

vars == <<pc, idx, all_facts, failed_languages, raised, output_file,
          write_calls, http_log, attempts, outcomes, clock, next_uuid,
          call, tpc, input_json, df, csv_file, xlsx_file>>

mainVars == <<pc, idx, all_facts, failed_languages, raised, output_file,
              write_calls, attempts, outcomes>>
tableVars == <<tpc, input_json, df, csv_file, xlsx_file>>

----------------------------------------------------------------------------
(* Bounds of the model *)

\* number of entries of SUPPORTED_LANGUAGES a run of main iterates over
NumLangs == 3
\* longest "data" list an upstream response carries
MaxFacts == 2
\* number of record objects in the JSON input of build_table
MaxRows == 2

(* Program constants *)
DEFAULT_FACT_COUNT == 200
MaxCount == 1000

SUPPORTED_LANGUAGES ==
    <<"eng", "ces", "ger", "ben", "esp", "rus", "por",
      "fil", "ukr", "urd", "ita", "zho", "kor">>

\* the prefix of the configured list a bounded run iterates over
Languages == SubSeq(SUPPORTED_LANGUAGES, 1, NumLangs)

----------------------------------------------------------------------------
(* Python and JSON values: a tag and a payload *)

PyStr(s)  == [t |-> "str", v |-> s]
PyNum(d)  == [t |-> "num", v |-> d]       \* d: the number's decimal text
PyNone    == [t |-> "null", v |-> ""]
PyList(s) == [t |-> "array", v |-> s]
PyDict(f) == [t |-> "object", v |-> f]    \* f: a function from keys to values
InvalidJson == [t |-> "invalid", v |-> ""] \* a body that is not JSON

\* bool(x)
Truthy(x) ==
    CASE x.t = "str"    -> x.v # ""
      [] x.t = "num"    -> x.v # "0"
      [] x.t = "null"   -> FALSE
      [] x.t = "array"  -> Len(x.v) > 0
      [] x.t = "object" -> DOMAIN x.v # {}

\* str(x) for the scalar values a fact may be
PyStrOf(x) ==
    CASE x.t = "str"  -> x.v
      [] x.t = "num"  -> x.v
      [] x.t = "null" -> "None"

(* Exceptions: a class and a message *)
Exc(type, msg) == [type |-> type, msg |-> msg]
NoExc == Exc("none", "")

\* the classes an exception class is an instance of
Bases(type) ==
    CASE type = "Timeout"          -> {"Timeout", "RequestException", "OSError", "Exception"}
      [] type = "ConnectionError"  -> {"ConnectionError", "RequestException", "OSError", "Exception"}
      [] type = "HTTPError"        -> {"HTTPError", "RequestException", "OSError", "Exception"}
      [] type = "RequestException" -> {"RequestException", "OSError", "Exception"}
      [] type = "JSONDecodeError"  -> {"JSONDecodeError", "ValueError", "Exception"}
      [] type = "KeyError"         -> {"KeyError", "LookupError", "Exception"}
      [] type = "ValueError"       -> {"ValueError", "Exception"}
      [] type = "AttributeError"   -> {"AttributeError", "Exception"}
      [] type = "OSError"          -> {"OSError", "Exception"}
      [] OTHER                     -> {}

IsInstance(e, classes) == Bases(e.type) \cap classes # {}

----------------------------------------------------------------------------
(* fetch_meowfacts *)

\* get_timestamp(): the clock's reading in ISO form plus "Z"
get_timestamp(now) == [iso |-> now, zone |-> "Z"]

\* str(uuid.uuid4()): the k-th identifier drawn after n earlier draws; uuid4
\* is taken to be what it is used as, a generator of fresh identifiers
uuid4(n, k) == [uuid |-> n + k]

\* the argument checks
ValidationSkipsCount(lang, count) ==
    IF ~Truthy(lang) \/ lang.t # "str"
    THEN Exc("ValueError", "invalid_language")
    ELSE NoExc

ValidationError(lang, count) ==
    IF ~Truthy(lang) \/ lang.t # "str"
    THEN Exc("ValueError", "invalid_language")
    ELSE IF count <= 0 \/ count > MaxCount
         THEN Exc("ValueError", "invalid_count")
         ELSE NoExc

\* requests.get(...) followed by response.raise_for_status()
requests_get(resp) ==
    CASE resp.net = "timeout"          -> Exc("Timeout", "")
      [] resp.net = "connection_error" -> Exc("ConnectionError", "")
      [] resp.net = "http_error"       -> Exc("HTTPError", "")
      [] resp.net = "request_error"    -> Exc("RequestException", "")
      [] resp.net = "ok"               -> NoExc

\* response.json()
response_json(resp) ==
    IF resp.body.t = "invalid" THEN Exc("JSONDecodeError", "") ELSE NoExc

\* data.get("data", []) and the isinstance(facts, list) check
ExtractFactsSubscript(data) ==
    IF data.t # "object"
    THEN [exc |-> Exc("AttributeError", "get"), facts |-> <<>>]
    ELSE IF "data" \notin DOMAIN data.v
         THEN [exc |-> Exc("KeyError", "data"), facts |-> <<>>]
         ELSE [exc |-> NoExc,
               facts |-> IF data.v["data"].t = "array" THEN data.v["data"].v ELSE <<>>]

ExtractFacts(data) ==
    IF data.t # "object"
    THEN [exc |-> Exc("AttributeError", "get"), facts |-> <<>>]
    ELSE LET got == IF "data" \in DOMAIN data.v THEN data.v["data"] ELSE PyList(<<>>)
         IN  [exc |-> NoExc,
              facts |-> IF got.t = "array" THEN got.v ELSE <<>>]

\* the list comprehension building the records
NormalizeOneIdPerBatch(facts, lang, now, n) ==
    [k \in 1..Len(facts) |->
        [event_id             |-> uuid4(n, 1),
         processing_timestamp |-> get_timestamp(now),
         language             |-> lang.v,
         fact                 |-> PyStrOf(facts[k])]]

Normalize(facts, lang, now, n) ==
    [k \in 1..Len(facts) |->
        [event_id             |-> uuid4(n, k),
         processing_timestamp |-> get_timestamp(now),
         language             |-> lang.v,
         fact                 |-> PyStrOf(facts[k])]]

\* the except clauses of fetch_meowfacts: what leaves the function when e is
\* raised inside its try block
ExceptClauses(e) ==
    IF IsInstance(e, {"Timeout"}) THEN e
    ELSE IF IsInstance(e, {"ConnectionError"}) THEN e
    ELSE IF IsInstance(e, {"HTTPError"}) THEN e
    ELSE IF IsInstance(e, {"KeyError", "JSONDecodeError"})
         THEN Exc("ValueError", "invalid_format")
    ELSE IF IsInstance(e, {"RequestException"}) THEN e
    ELSE e

Raise(e, gets, now, n) ==
    [outcome |-> "raise", value |-> <<>>, exc |-> e, gets |-> gets,
     clock |-> now, uuid |-> n]

Return(recs, gets, now, n) ==
    [outcome |-> "return", value |-> recs, exc |-> NoExc, gets |-> gets,
     clock |-> now, uuid |-> n]

\* fetch_meowfacts(lang, count) when the upstream answers resp, the clock
\* reads now and n identifiers were drawn before
fetch_meowfacts(lang, count, resp, now, n) ==
    LET invalid == ValidationError(lang, count)
        get     == <<[lang |-> lang.v, count |-> count]>>
    IN
    IF invalid # NoExc THEN Raise(invalid, <<>>, now, n)
    ELSE IF requests_get(resp) # NoExc
         THEN Raise(ExceptClauses(requests_get(resp)), get, now, n)
    ELSE IF response_json(resp) # NoExc
         THEN Raise(ExceptClauses(response_json(resp)), get, now, n)
    ELSE LET got == ExtractFacts(resp.body) IN
         IF got.exc # NoExc
         THEN Raise(ExceptClauses(got.exc), get, now, n)
         ELSE Return(Normalize(got.facts, lang, now, n), get,
                     now + 1, n + Len(got.facts))

----------------------------------------------------------------------------
(* The inputs the model draws *)

\* sequences over S of length at most n
SeqsUpTo(S, n) == UNION {[1..k -> S] : k \in 0..n}

\* the values an element of "data" may be
FactVals == {PyStr("cat"), PyStr(""), PyNum("7"), PyNone}

Upstream(net, body) == [net |-> net, body |-> body]

FailedResponses ==
    {Upstream(k, InvalidJson) :
        k \in {"timeout", "connection_error", "http_error", "request_error"}}
    \cup {Upstream("ok", InvalidJson)}

\* 2xx, valid JSON, top-level value not an object
NonObjectBodies ==
    {PyList(<<>>), PyList(<<PyStr("cat")>>), PyStr("cat"), PyNum("7"), PyNone}

\* 2xx, an object without "data", or whose "data" is not a list
NoListBodies ==
    {PyDict([k \in {} |-> PyNone]),
     PyDict([k \in {"error"} |-> PyStr("cat")])}
    \cup {PyDict([k \in {"data"} |-> x]) :
            x \in {PyStr("cat"), PyNum("7"), PyNone,
                   PyDict([k \in {"data"} |-> PyList(<<PyStr("cat")>>)])}}

\* 2xx, {"data": [f1, ..., fN]}
ListBody(fs) == PyDict([k \in {"data"} |-> PyList(fs)])

Responses ==
    FailedResponses
    \cup {Upstream("ok", b) : b \in NonObjectBodies \cup NoListBodies}
    \cup {Upstream("ok", ListBody(fs)) : fs \in SeqsUpTo(FactVals, MaxFacts)}

LangInputs == {PyStr("eng"), PyStr("ces"), PyStr(""), PyNum("0"), PyNum("5"), PyNone}
CountInputs == {-1, 0, 1, DEFAULT_FACT_COUNT, MaxCount, MaxCount + 1}

NoCall == [lang |-> PyNone, count |-> 0, resp |-> Upstream("none", InvalidJson),
           result |-> Raise(NoExc, <<>>, 0, 0), made |-> FALSE]

MainIdle ==
    /\ pc = "idle" /\ idx = 0 /\ all_facts = <<>> /\ failed_languages = <<>>
    /\ raised = NoExc /\ output_file = [exists |-> FALSE, complete |-> FALSE, data |-> <<>>]
    /\ write_calls = <<>> /\ attempts = <<>> /\ outcomes = <<>>

TableIdle ==
    /\ tpc = "idle" /\ input_json = <<>>
    /\ df = [columns |-> <<>>, rows |-> <<>>] /\ csv_file = <<>>
    /\ xlsx_file = <<>>

----------------------------------------------------------------------------
(* SpecFetch: calls of fetch_meowfacts *)

FetchInit ==
    /\ MainIdle /\ TableIdle
    /\ http_log = <<>>
    /\ clock \in {0, 5}
    /\ next_uuid \in {0, 3}
    /\ call = NoCall

FetchCall ==
    /\ ~call.made
    /\ \E lang \in LangInputs, count \in CountInputs, resp \in Responses :
        LET r == fetch_meowfacts(lang, count, resp, clock, next_uuid) IN
        /\ call' = [lang |-> lang, count |-> count, resp |-> resp,
                    result |-> r, made |-> TRUE]
        /\ http_log' = http_log \o r.gets
        /\ clock' = r.clock
        /\ next_uuid' = r.uuid
    /\ UNCHANGED <<mainVars, tableVars>>

FetchNext == FetchCall

SpecFetch == FetchInit /\ [][FetchNext]_vars

----------------------------------------------------------------------------
(* main and write_output_file *)

NoFile == [exists |-> FALSE, complete |-> FALSE, data |-> <<>>]

\* how the file system answers a write_output_file call
FsOutcomes == {"ok", "mkdir_error", "open_error", "dump_error"}

\* write_output_file(data, output_path) on a file system answering fs, the
\* file being old before the call: the exception that leaves it and the file
\* after it. An empty data is only warned about, and written.
write_output_file(data, old, fs) ==
    CASE fs = "ok" ->
            [exc |-> NoExc,
             file |-> [exists |-> TRUE, complete |-> TRUE, data |-> data]]
      [] fs = "dump_error" ->
            [exc |-> Exc("OSError", "dump"),
             file |-> [exists |-> TRUE, complete |-> FALSE, data |-> data]]
      [] fs \in {"mkdir_error", "open_error"} ->
            [exc |-> Exc("OSError", fs), file |-> old]

\* the except clauses of main's loop: whether e is caught
MainCatchesNetworkOnly(e) ==
    IsInstance(e, {"RequestException", "ValueError"})

MainCatches(e) ==
    \/ IsInstance(e, {"RequestException", "ValueError"})
    \/ IsInstance(e, {"Exception"})

\* all_facts.extend(facts)
AssignFacts(facts, more) == more

Extend(facts, more) == facts \o more

\* "continue" in an except clause: the index of the language handled next
BreakLoop(i) == Len(Languages) + 1

Continue(i) == i + 1

\* "if not all_facts": whether main raises instead of writing
NeverEmpty(facts) == FALSE

NoFactsUpToOne(facts) == Len(facts) <= 1

NoFacts(facts) == facts = <<>>

\* the upstream answers a run of main is given
MainResponses ==
    FailedResponses
    \cup {Upstream("ok", b) :
            b \in {PyList(<<PyStr("cat")>>), PyStr("cat"), PyNone,
                   PyDict([k \in {} |-> PyNone]),
                   PyDict([k \in {"data"} |-> PyStr("cat")])}}
    \cup {Upstream("ok", ListBody([i \in 1..k |-> PyStr("cat")])) : k \in 0..MaxFacts}

MainInit ==
    /\ TableIdle
    /\ pc = "loop" /\ idx = 1
    /\ all_facts = <<>> /\ failed_languages = <<>>
    /\ raised = NoExc /\ output_file = NoFile
    /\ write_calls = <<>> /\ http_log = <<>>
    /\ attempts = <<>> /\ outcomes = <<>>
    /\ clock = 0 /\ next_uuid = 0
    /\ call = NoCall

\* one iteration of "for lang in SUPPORTED_LANGUAGES"
MainIterate ==
    /\ pc = "loop"
    /\ idx <= Len(Languages)
    /\ \E resp \in MainResponses :
        LET lang == Languages[idx]
            r    == fetch_meowfacts(PyStr(lang), DEFAULT_FACT_COUNT, resp,
                                    clock, next_uuid)
            next == IF r.outcome = "return" THEN idx + 1 ELSE Continue(idx)
        IN
        /\ attempts' = Append(attempts, lang)
        /\ outcomes' = Append(outcomes, [lang |-> lang, resp |-> resp, result |-> r])
        /\ call' = [lang |-> PyStr(lang), count |-> DEFAULT_FACT_COUNT,
                    resp |-> resp, result |-> r, made |-> TRUE]
        /\ http_log' = http_log \o r.gets
        /\ clock' = r.clock
        /\ next_uuid' = r.uuid
        /\ IF r.outcome = "return"
           THEN /\ all_facts' = Extend(all_facts, r.value)
                /\ UNCHANGED <<failed_languages, raised>>
                /\ idx' = next
                /\ pc' = IF next > Len(Languages) THEN "finish" ELSE "loop"
           ELSE IF MainCatches(r.exc)
           THEN /\ failed_languages' = Append(failed_languages, lang)
                /\ UNCHANGED <<all_facts, raised>>
                /\ idx' = next
                /\ pc' = IF next > Len(Languages) THEN "finish" ELSE "loop"
           ELSE /\ raised' = r.exc
                /\ pc' = "done"
                /\ UNCHANGED <<all_facts, failed_languages, idx>>
    /\ UNCHANGED <<output_file, write_calls, tableVars>>

\* after the loop: the no-data check, then write_output_file
MainFinish ==
    /\ pc = "finish"
    /\ IF NoFacts(all_facts)
       THEN /\ raised' = Exc("ValueError", "no_facts")
            /\ UNCHANGED <<output_file, write_calls>>
       ELSE \E fs \in FsOutcomes :
            LET w == write_output_file(all_facts, output_file, fs) IN
            /\ write_calls' = Append(write_calls, all_facts)
            /\ output_file' = w.file
            /\ raised' = w.exc
    /\ pc' = "done"
    /\ UNCHANGED <<idx, all_facts, failed_languages, http_log, attempts,
                   outcomes, clock, next_uuid, call, tableVars>>

Init == MainInit
Next == MainIterate \/ MainFinish
Spec == Init /\ [][Next]_vars

----------------------------------------------------------------------------
(* build_table *)

(* A text is a sequence of tokens: the three characters the delimited format
   gives a meaning to, and chunks of other characters. *)
COMMA == ","
QUOTE == "\""
LF    == "\n"

\* a JSON object of the input: its keys in file order and their values
JsonObject(keys, vals) == [keys |-> keys, vals |-> vals]

\* a cell of a DataFrame or of a sheet: a text, or no value (NaN, empty cell)
Cell(text) == [t |-> "str", v |-> text]
NaN == [t |-> "nan", v |-> <<>>]

\* cols followed by the keys not yet in it, in the order of keys
RECURSIVE AddColumns(_, _)
AddColumns(cols, keys) ==
    IF keys = <<>> THEN cols
    ELSE AddColumns(IF \E j \in DOMAIN cols : cols[j] = keys[1]
                    THEN cols ELSE Append(cols, keys[1]),
                    Tail(keys))

RECURSIVE ColumnsOf(_, _)
ColumnsOf(cols, data) ==
    IF data = <<>> THEN cols
    ELSE ColumnsOf(AddColumns(cols, data[1].keys), Tail(data))

\* pd.DataFrame(data) for a list of dicts: the columns are the keys in order
\* of first appearance, a row per dict, NaN where a dict lacks the key
DataFrame(data) ==
    LET cols == ColumnsOf(<<>>, data) IN
    [columns |-> cols,
     rows |-> [i \in 1..Len(data) |->
                 [j \in 1..Len(cols) |->
                    IF \E k \in DOMAIN data[i].keys : data[i].keys[k] = cols[j]
                    THEN Cell(data[i].vals[cols[j]])
                    ELSE NaN]]]

\* len(df)
DfLen(frame) == Len(frame.rows)

\* the writer's quoting of one field (QUOTE_MINIMAL, quotes doubled)
RECURSIVE DoubleQuotes(_)
DoubleQuotes(text) ==
    IF text = <<>> THEN <<>>
    ELSE (IF text[1] = QUOTE THEN <<QUOTE, QUOTE>> ELSE <<text[1]>>)
         \o DoubleQuotes(Tail(text))

CsvField(text) ==
    IF \E k \in DOMAIN text : text[k] \in {COMMA, QUOTE, LF}
    THEN <<QUOTE>> \o DoubleQuotes(text) \o <<QUOTE>>
    ELSE text

RECURSIVE JoinFields(_)
JoinFields(fields) ==
    IF fields = <<>> THEN <<>>
    ELSE IF Len(fields) = 1 THEN CsvField(fields[1])
    ELSE CsvField(fields[1]) \o <<COMMA>> \o JoinFields(Tail(fields))

\* one written row: a lone empty field is quoted, the row ends with LF
CsvRow(fields) ==
    (IF Len(fields) = 1 /\ fields[1] = <<>> THEN <<QUOTE, QUOTE>>
     ELSE JoinFields(fields)) \o <<LF>>

RECURSIVE ConcatAll(_)
ConcatAll(texts) ==
    IF texts = <<>> THEN <<>> ELSE texts[1] \o ConcatAll(Tail(texts))

\* the text of a cell in the delimited file (na_rep is the empty text)
CellText(c) == IF c.t = "nan" THEN <<>> ELSE c.v

\* df.to_csv(CSV_FILE, index=False): a header row, then a row per record
ToCsvWithIndex(frame) ==
    CsvRow(<< <<>> >> \o [j \in 1..Len(frame.columns) |-> <<frame.columns[j]>>])
    \o ConcatAll([i \in 1..Len(frame.rows) |->
                    CsvRow(<< <<"index">> >> \o
                           [j \in 1..Len(frame.columns) |-> CellText(frame.rows[i][j])])])

ToCsv(frame) ==
    CsvRow([j \in 1..Len(frame.columns) |-> <<frame.columns[j]>>])
    \o ConcatAll([i \in 1..Len(frame.rows) |->
                    CsvRow([j \in 1..Len(frame.columns) |-> CellText(frame.rows[i][j])])])

\* df.to_excel(EXCEL_FILE, index=False): one sheet, a header row, then a row
\* per record, an empty cell for NaN
ToExcel(frame) ==
    << [j \in 1..Len(frame.columns) |-> Cell(<<frame.columns[j]>>)] >>
    \o [i \in 1..Len(frame.rows) |-> frame.rows[i]]

\* the inputs: objects with these key orders and these "fact" texts
KeyOrders ==
    {<<"event_id", "processing_timestamp", "language", "fact">>,
     <<"fact", "language">>,
     <<"language", "event_id">>,
     <<"fact">>,
     <<"event_id", "fact", "source">>}

FactTexts ==
    {<<>>, <<"cat">>, <<"a", COMMA, "b">>, <<"say ", QUOTE, "meow", QUOTE>>,
     <<"line1", LF, "line2">>, <<QUOTE>>, <<LF>>}

RecordObjects ==
    {JsonObject(ks, [k \in {ks[j] : j \in DOMAIN ks} |->
                        IF k = "fact" THEN f ELSE <<k, "-value">>]) :
        ks \in KeyOrders, f \in FactTexts}

TableInit ==
    /\ MainIdle
    /\ http_log = <<>> /\ clock = 0 /\ next_uuid = 0 /\ call = NoCall
    /\ tpc = "start"
    /\ input_json \in SeqsUpTo(RecordObjects, MaxRows)
    /\ df = DataFrame(<<>>) /\ csv_file = <<>> /\ xlsx_file = <<>>

\* build_table(): load the JSON, build the DataFrame, write both files
BuildTable ==
    /\ tpc = "start"
    /\ df' = DataFrame(input_json)
    /\ csv_file' = ToCsv(DataFrame(input_json))
    /\ xlsx_file' = ToExcel(DataFrame(input_json))
    /\ tpc' = "done"
    /\ UNCHANGED <<input_json, mainVars, http_log, clock, next_uuid, call>>

TableNext == BuildTable

SpecTable == TableInit /\ [][TableNext]_vars

----------------------------------------------------------------------------
(* Claims about fetch_meowfacts, checked under SpecFetch *)

ValidArgs(c) ==
    /\ c.lang.t = "str" /\ c.lang.v # ""
    /\ c.count >= 1 /\ c.count <= 1000

IsListBody(resp) ==
    /\ resp.net = "ok" /\ resp.body.t = "object"
    /\ "data" \in DOMAIN resp.body.v
    /\ resp.body.v["data"].t = "array"

\* the text a fact value is expected to become
TextForm(f) == IF f.t = "null" THEN "None" ELSE f.v

\* C1: a successful call whose body is {"data": [f1..fN]} returns exactly N
\* records in upstream order; each has the requested language, the same
\* processing_timestamp, the text form of its fact, and an event_id no other
\* record of the call has.
C1_RecordsPerFact ==
    (call.made /\ ValidArgs(call) /\ IsListBody(call.resp)) =>
        LET fs == call.resp.body.v["data"].v
            rs == call.result.value
        IN  /\ call.result.outcome = "return"
            /\ Len(rs) = Len(fs)
            /\ \A i \in 1..Len(rs) :
                 /\ rs[i].language = call.lang.v
                 /\ rs[i].fact = TextForm(fs[i])
                 /\ rs[i].processing_timestamp = rs[1].processing_timestamp
            /\ \A i, j \in 1..Len(rs) :
                 i # j => rs[i].event_id # rs[j].event_id

C1_Witness ==
    /\ call.made /\ ValidArgs(call) /\ IsListBody(call.resp)
    /\ Len(call.result.value) = 2
    /\ call.resp.body.v["data"].v[1] = call.resp.body.v["data"].v[2]
    /\ call.resp.body.v["data"].v[1].t = "num"

\* the ValueError of the argument checks (not the one of a malformed response)
IsValidationError(e) ==
    e.type = "ValueError" /\ e.msg \in {"invalid_language", "invalid_count"}

\* C2: a call with an empty or non-text language code, or a count outside
\* [1, 1000], raises the validation error with no HTTP request issued; a call
\* with a non-empty text code and a count in [1, 1000] raises no validation
\* error.
C2_ValidationBeforeNetwork ==
    call.made =>
        IF ValidArgs(call)
        THEN ~IsValidationError(call.result.exc)
        ELSE /\ call.result.outcome = "raise"
             /\ IsValidationError(call.result.exc)
             /\ call.result.gets = <<>>
             /\ http_log = <<>>

C2_Witness ==
    /\ call.made /\ call.lang = PyStr("eng") /\ call.count = 1001
    /\ call.resp.net = "ok"
    /\ call.result.outcome = "raise" /\ http_log = <<>>

IsNoListBody(resp) ==
    /\ resp.net = "ok" /\ resp.body.t = "object"
    /\ \/ "data" \notin DOMAIN resp.body.v
       \/ resp.body.v["data"].t # "array"

\* C3: a 2xx response whose JSON body is an object in which "data" is
\* missing or is not a list makes the call return an empty list, without an
\* error.
C3_MissingDataIsEmpty ==
    (call.made /\ ValidArgs(call) /\ IsNoListBody(call.resp)) =>
        /\ call.result.outcome = "return"
        /\ call.result.value = <<>>
        /\ call.result.exc = NoExc

C3_Witness ==
    /\ call.made /\ ValidArgs(call) /\ IsNoListBody(call.resp)
    /\ "data" \notin DOMAIN call.resp.body.v
    /\ call.result.outcome = "return"

----------------------------------------------------------------------------
(* Claims about main, checked under Spec *)

Range(f) == {f[i] : i \in DOMAIN f}

Succeeded(o) == o.result.outcome = "return"
Failed(o) == o.result.outcome = "raise"

\* the languages whose fetch raised, in order
RECURSIVE LangsWhereFailed(_)
LangsWhereFailed(os) ==
    IF os = <<>> THEN <<>>
    ELSE (IF Failed(os[1]) THEN <<os[1].lang>> ELSE <<>>)
         \o LangsWhereFailed(Tail(os))

\* the records the successful fetches returned, language after language
RECURSIVE ReturnedRecords(_)
ReturnedRecords(os) ==
    IF os = <<>> THEN <<>>
    ELSE (IF Succeeded(os[1]) THEN os[1].result.value ELSE <<>>)
         \o ReturnedRecords(Tail(os))

SomeRecordReturned ==
    \E i \in DOMAIN outcomes :
        Succeeded(outcomes[i]) /\ Len(outcomes[i].result.value) >= 1

Persisted(data) == [exists |-> TRUE, complete |-> TRUE, data |-> data]

\* C4 as stated: whenever some successful language returned a record, the run
\* ends with the concatenation of the successful languages' records
\* persisted, exactly the failing languages in failed_languages, and no
\* exception leaving main.
C4_AsStated ==
    (pc = "done" /\ SomeRecordReturned) =>
        /\ output_file = Persisted(ReturnedRecords(outcomes))
        /\ failed_languages = LangsWhereFailed(outcomes)
        /\ raised = NoExc

\* C4 (amended): whenever some successful language returned a record, main
\* calls write_output_file once with the concatenation, in configured order,
\* of the successful languages' records; failed_languages holds exactly the
\* failing languages; and either the write succeeds, that Dataset is the
\* file's content and nothing is raised, or the write fails and its OSError
\* leaves main.
C4_PartialFailure ==
    (pc = "done" /\ SomeRecordReturned) =>
        /\ Len(outcomes) = Len(Languages)
        /\ write_calls = <<ReturnedRecords(outcomes)>>
        /\ all_facts = ReturnedRecords(outcomes)
        /\ failed_languages = LangsWhereFailed(outcomes)
        /\ \A i \in DOMAIN outcomes :
             Succeeded(outcomes[i]) => outcomes[i].lang \notin Range(failed_languages)
        /\ IF raised = NoExc
           THEN output_file = Persisted(ReturnedRecords(outcomes))
           ELSE raised.type = "OSError" /\ output_file # Persisted(all_facts)

C4_Witness ==
    /\ pc = "done" /\ raised = NoExc
    /\ Len(outcomes) >= 3
    /\ Succeeded(outcomes[1]) /\ Len(outcomes[1].result.value) = 2
    /\ Failed(outcomes[2]) /\ outcomes[2].result.exc.type = "Timeout"
    /\ Succeeded(outcomes[3]) /\ Len(outcomes[3].result.value) = 1
    /\ Len(output_file.data) = 3
    /\ failed_languages = <<"ces">>

\* C5: when every language fails, main raises the no-data error and the
\* output file is not written; in every run write_output_file is only called
\* with, and the file only holds, a Dataset of at least one record.
C5_NeverWritesEmpty ==
    /\ (pc = "done" /\ \A i \in DOMAIN outcomes : Failed(outcomes[i])) =>
          /\ raised = Exc("ValueError", "no_facts")
          /\ write_calls = <<>>
          /\ output_file = NoFile
    /\ \A i \in DOMAIN write_calls : write_calls[i] # <<>>
    /\ output_file.exists => output_file.data # <<>>

C5_Witness ==
    /\ pc = "done"
    /\ Len(failed_languages) = Len(Languages)
    /\ raised = Exc("ValueError", "no_facts")
    /\ ~output_file.exists

\* C6 as stated: when main fails with the no-data error, every configured
\* language is in failed_languages.
C6_AsStated ==
    (pc = "done" /\ raised = Exc("ValueError", "no_facts")) =>
        \A i \in DOMAIN Languages : Languages[i] \in Range(failed_languages)

\* C6 (amended): when main fails with the no-data error, every configured
\* language either is in failed_languages or its fetch returned zero
\* records; a run in which some fetch returned a record never ends in the
\* no-data error.
C6_NoDataMeansNoRecord ==
    /\ (pc = "done" /\ raised = Exc("ValueError", "no_facts")) =>
          /\ Len(outcomes) = Len(Languages)
          /\ \A i \in DOMAIN outcomes :
               \/ outcomes[i].lang \in Range(failed_languages)
               \/ Succeeded(outcomes[i]) /\ outcomes[i].result.value = <<>>
    /\ (pc = "done" /\ SomeRecordReturned) => raised # Exc("ValueError", "no_facts")

C6_Witness ==
    /\ pc = "done" /\ raised = Exc("ValueError", "no_facts")
    /\ \E i \in DOMAIN outcomes : Succeeded(outcomes[i])
    /\ \E i \in DOMAIN outcomes : Failed(outcomes[i])

\* the failures the claim C7 lists: timeout, connection failure, HTTP error
\* status (any requests exception) and a malformed response
IsNetworkOrParsing(e) ==
    \/ IsInstance(e, {"RequestException"})
    \/ e = Exc("ValueError", "invalid_format")

\* C7 as stated: a network or parsing failure of a language is caught and
\* the language recorded as failed; any other exception raised while a
\* language is processed is not caught and leaves main.
C7_AsStated ==
    \A i \in DOMAIN outcomes :
        Failed(outcomes[i]) =>
            IF IsNetworkOrParsing(outcomes[i].result.exc)
            THEN outcomes[i].lang \in Range(failed_languages)
            ELSE /\ raised = outcomes[i].result.exc
                 /\ outcomes[i].lang \notin Range(failed_languages)

\* C7 (amended): every exception (any instance of Exception) raised while a
\* language is processed, a network or parsing failure or not, is caught by
\* the loop and the language recorded as failed, and the loop goes on; the
\* only exceptions that leave main are the no-data error and the OSError of
\* write_output_file, both raised after the loop.
C7_LoopCatchesAll ==
    /\ \A i \in DOMAIN outcomes :
         Failed(outcomes[i]) =>
            /\ outcomes[i].lang \in Range(failed_languages)
            /\ raised # outcomes[i].result.exc
            /\ (i < Len(Languages) => (pc = "loop" \/ Len(outcomes) > i))
    /\ raised # NoExc =>
         /\ pc = "done" /\ Len(outcomes) = Len(Languages)
         /\ raised = Exc("ValueError", "no_facts") \/ raised.type = "OSError"

C7_Witness ==
    /\ Len(outcomes) >= 2
    /\ Failed(outcomes[1])
    /\ outcomes[1].result.exc.type = "AttributeError"
    /\ failed_languages[1] = "eng"
    /\ raised = NoExc

\* a 2xx response, valid JSON, of a shape other than {"data": [...]}
IsOtherShape(resp) ==
    /\ resp.net = "ok" /\ resp.body.t # "invalid"
    /\ ~IsListBody(resp)

\* C8: for a 2xx response whose body is valid JSON of any shape other than
\* {"data": [...]}, a top-level value that is not an object included, the
\* fetch returns an empty list and main does not record the language as
\* failed.
C8_OtherShapesDegrade ==
    \A i \in DOMAIN outcomes :
        IsOtherShape(outcomes[i].resp) =>
            /\ Succeeded(outcomes[i])
            /\ outcomes[i].result.value = <<>>
            /\ outcomes[i].lang \notin Range(failed_languages)

\* C10: each configured language is attempted once, in configured order,
\* with at most one GET per language; the languages after a failed one are
\* still attempted; write_output_file is called at most once, and only after
\* every configured language was attempted.
C10_OneAttemptPerLanguage ==
    /\ Len(attempts) <= Len(Languages)
    /\ attempts = SubSeq(Languages, 1, Len(attempts))
    /\ \A i \in DOMAIN attempts :
         Cardinality({j \in DOMAIN http_log : http_log[j].lang = attempts[i]}) <= 1
    /\ \A j \in DOMAIN http_log : http_log[j].lang \in Range(attempts)
    /\ pc \in {"finish", "done"} => attempts = Languages
    /\ Len(write_calls) <= 1
    /\ write_calls # <<>> => attempts = Languages /\ pc = "done"

C10_Witness ==
    /\ pc = "done"
    /\ Failed(outcomes[1]) /\ Failed(outcomes[2])
    /\ attempts = Languages
    /\ Len(http_log) = Len(Languages)
    /\ Len(write_calls) = 1

----------------------------------------------------------------------------
(* Claims about build_table, checked under SpecTable *)

\* Reading a delimited file back: the records a reader of the format finds
\* in it, each a sequence of field texts. st is the reader's position in a
\* record: "record" (at its start), "field" (at a field's start), "plain"
\* (in an unquoted field), "quoted" (in a quoted field), "quote" (after a
\* quote inside a quoted field).
RECURSIVE ReadCsv(_, _, _, _, _, _)
ReadCsv(file, i, rows, row, field, st) ==
    IF i > Len(file)
    THEN IF st = "record" THEN rows ELSE Append(rows, Append(row, field))
    ELSE LET c == file[i] IN
      CASE st = "quoted" ->
             IF c = QUOTE THEN ReadCsv(file, i + 1, rows, row, field, "quote")
             ELSE ReadCsv(file, i + 1, rows, row, Append(field, c), "quoted")
        [] st = "quote" /\ c = QUOTE ->
             ReadCsv(file, i + 1, rows, row, Append(field, QUOTE), "quoted")
        [] st = "record" /\ c = LF ->
             ReadCsv(file, i + 1, Append(rows, <<>>), <<>>, <<>>, "record")
        [] st \in {"record", "field"} /\ c = QUOTE ->
             ReadCsv(file, i + 1, rows, row, <<>>, "quoted")
        [] OTHER ->
             IF c = COMMA
             THEN ReadCsv(file, i + 1, rows, Append(row, field), <<>>, "field")
             ELSE IF c = LF
             THEN ReadCsv(file, i + 1, Append(rows, Append(row, field)), <<>>, <<>>, "record")
             ELSE ReadCsv(file, i + 1, rows, row, Append(field, c), "plain")

CsvRecords(file) == ReadCsv(file, 1, <<>>, <<>>, <<>>, "record")

\* the text lines of a file: its line breaks, each line ending with one
CsvLines(file) == Cardinality({i \in DOMAIN file : file[i] = LF})

HasKey(obj, key) == \E k \in DOMAIN obj.keys : obj.keys[k] = key

\* where a key first appears in the input: the record, then the place in it
FirstRecord(key) ==
    CHOOSE i \in DOMAIN input_json :
        /\ HasKey(input_json[i], key)
        /\ \A h \in 1..(i - 1) : ~HasKey(input_json[h], key)
PlaceIn(obj, key) == CHOOSE k \in DOMAIN obj.keys : obj.keys[k] = key

AppearsBefore(a, b) ==
    \/ FirstRecord(a) < FirstRecord(b)
    \/ /\ FirstRecord(a) = FirstRecord(b)
       /\ PlaceIn(input_json[FirstRecord(a)], a) < PlaceIn(input_json[FirstRecord(a)], b)

InputKeys == UNION {{input_json[i].keys[k] : k \in DOMAIN input_json[i].keys} :
                        i \in DOMAIN input_json}

ColumnIndex(cols, key) == CHOOSE j \in DOMAIN cols : cols[j] = key

InputFacts == {input_json[i].vals["fact"] :
                  i \in {h \in DOMAIN input_json : HasKey(input_json[h], "fact")}}

\* the texts in the "fact" column of the delimited file, rows of records
\* that have no "fact" left out
CsvFacts ==
    LET recs == CsvRecords(csv_file)
        j    == ColumnIndex(recs[1], <<"fact">>)
    IN  {recs[i + 1][j] :
            i \in {h \in DOMAIN input_json : HasKey(input_json[h], "fact")}}

InputHasLineBreak ==
    \E i \in DOMAIN input_json : \E k \in DOMAIN input_json[i].keys :
        \E m \in DOMAIN input_json[i].vals[input_json[i].keys[k]] :
            input_json[i].vals[input_json[i].keys[k]][m] = LF

\* the table a file or sheet holds: a header of column names (texts), then
\* row i, column c of the input
TableMatchesInput(header, rows) ==
    /\ Len(rows) = Len(input_json)
    /\ Len(header) = Cardinality(InputKeys)
    /\ {header[j] : j \in DOMAIN header} = {<<k>> : k \in InputKeys}
    /\ \A a, b \in DOMAIN header :
         a < b => AppearsBefore(header[a][1], header[b][1])
    /\ \A i \in DOMAIN rows :
         /\ Len(rows[i]) = Len(header)
         /\ \A j \in DOMAIN header :
              rows[i][j] = IF HasKey(input_json[i], header[j][1])
                           THEN input_json[i].vals[header[j][1]]
                           ELSE <<>>

CsvTable ==
    LET recs == CsvRecords(csv_file) IN
    [header |-> recs[1], rows |-> Tail(recs)]

SheetTable ==
    [header |-> [j \in DOMAIN xlsx_file[1] |-> CellText(xlsx_file[1][j])],
     rows   |-> [i \in 1..(Len(xlsx_file) - 1) |->
                   [j \in DOMAIN xlsx_file[i + 1] |-> CellText(xlsx_file[i + 1][j])]]]

\* C9 as stated: the delimited file has n + 1 text lines, header included
\* (with the rest of the claim: n data rows in file order, the columns in
\* order of first appearance, the fact values kept, the same row and column
\* counts in the sheet).
C9_AsStated ==
    tpc = "done" =>
        /\ CsvLines(csv_file) = Len(input_json) + 1
        /\ TableMatchesInput(CsvTable.header, CsvTable.rows)
        /\ TableMatchesInput(SheetTable.header, SheetTable.rows)

\* C9 (amended): for a JSON array of n record objects build_table writes a
\* delimited file of n + 1 records, the header and a row per input record in
\* file order; the columns are the records' field names in order of first
\* appearance; the cell of row i in a column is record i's value of that
\* field (empty where the record has none), so the fact values of the output
\* are those of the input; the sheet has the same rows and columns; and the
\* file has n + 1 text lines exactly when no value contains a line break,
\* and more otherwise.
C9_TableProjection ==
    tpc = "done" =>
        /\ DfLen(df) = Len(input_json)
        /\ Len(CsvRecords(csv_file)) = Len(input_json) + 1
        /\ TableMatchesInput(CsvTable.header, CsvTable.rows)
        /\ TableMatchesInput(SheetTable.header, SheetTable.rows)
        /\ Len(xlsx_file) = Len(CsvRecords(csv_file))
        /\ \A i \in DOMAIN xlsx_file :
             Len(xlsx_file[i]) = Len(CsvRecords(csv_file)[i])
        /\ ("fact" \in InputKeys) => CsvFacts = InputFacts
        /\ IF InputHasLineBreak
           THEN CsvLines(csv_file) > Len(input_json) + 1
           ELSE CsvLines(csv_file) = Len(input_json) + 1

C9_Witness ==
    /\ tpc = "done"
    /\ Len(input_json) = 2
    /\ input_json[1].keys = <<"fact", "language">>
    /\ input_json[2].keys = <<"event_id", "fact", "source">>
    /\ input_json[1].vals["fact"] = <<"a", COMMA, "b">>
    /\ input_json[2].vals["fact"] = <<"say ", QUOTE, "meow", QUOTE>>
    /\ df.columns = <<"fact", "language", "event_id", "source">>
    /\ CsvLines(csv_file) = 3

====
